---- MODULE Spec2Model ----
(***************************************************************************)
(* Model of metrics/peekhandler.go: the channel (transport link) peek      *)
(* handler and the xgress (session) peek handler.                          *)
(*                                                                         *)
(* The metric handle types (Meter, Histogram, IntervalCounter) and the     *)
(* Registry belong to package metrics but their implementation is not in   *)
(* peekhandler.go; they are modelled from the specification's data model.  *)
(* xgress.UnmarshallPayload is an external function: a message carries the *)
(* outcome the decoder would produce for its body.                         *)
(***************************************************************************)
EXTENDS Naturals, Sequences, FiniteSets, Bags, TLC

VARIABLES
    handlers,       \* the channelPeekHandler objects constructed so far
    linkHandles,    \* the link-scoped handle sets the registry has handed out
    appHandles,     \* the six application-wide handles, shared by every handler
    usage,          \* the two usage interval counters, shared by every handler
    log,            \* number of error lines written to the logger
    xgressHandles,  \* the handles of the xgressPeekHandler
    observed,       \* history: per channel handler, what was delivered to it
    xobserved,      \* history: the bag of xgress handler calls made
    ncalls,         \* history: number of Rx/Tx/Close calls made so far
    running,        \* the calls in progress in some goroutine, each with its position
    shadow          \* history: the handles had every call run alone, in order of entry

vars == <<handlers, linkHandles, appHandles, usage, log, xgressHandles, observed, xobserved,
          ncalls, running, shadow>>

---------------------------------------------------------------------------
(* Bounds *)

MaxTaps == 2        \* channel peek handlers constructed
MaxCalls == 2       \* Rx/Tx/Close calls in one behaviour

LinkIds == {"L1", "L2"}
SessionIds == {"S1", "S2"}
\* lengths of a message body and of a payload's data: empty and not
Sizes == {0, 1}

ContentTypePayloadType == 1100
ContentTypes == {ContentTypePayloadType, ContentTypePayloadType + 1}

Initiator == "Initiator"
Originators == {Initiator, "Terminator"}

(* A channel2.Message as the handler reads it: the content type, len(Body), *)
(* and what xgress.UnmarshallPayload returns for it (an error, or a payload *)
(* with SessionId and Data; Data is a part of Body).                        *)
Messages ==
    { m \in [ContentType : ContentTypes, BodyLen : Sizes, decodes : BOOLEAN,
             SessionId : SessionIds \cup {""}, DataLen : Sizes] :
        /\ m.decodes => (m.SessionId \in SessionIds /\ m.DataLen <= m.BodyLen)
        /\ ~m.decodes => (m.SessionId = "" /\ m.DataLen = 0) }

UnmarshallPayload(msg) ==
    [err |-> ~msg.decodes, SessionId |-> msg.SessionId, DataLen |-> msg.DataLen]

---------------------------------------------------------------------------
(* Metric handles.  A meter keeps the sum of its marks, a histogram the   *)
(* bag of its samples, an interval counter the bag of its (key, amount)   *)
(* updates (the time bucket of an update is the registry's matter).       *)
(* disposed counts the Dispose calls on the handle, stale the updates it  *)
(* received after the first of them.                                      *)

NewMeter == [count |-> 0, disposed |-> 0, stale |-> 0]
NewHistogram == [samples |-> EmptyBag, disposed |-> 0, stale |-> 0]
NewIntervalCounter == [updates |-> EmptyBag, disposed |-> 0]

\* Meter.Mark(n)
Mark(m, n) ==
    [m EXCEPT !.count = @ + n, !.stale = IF m.disposed > 0 THEN @ + 1 ELSE @]

\* Histogram.Update(n)
HistogramUpdate(h, n) ==
    [h EXCEPT !.samples = @ (+) SetToBag({n}), !.stale = IF h.disposed > 0 THEN @ + 1 ELSE @]

\* IntervalCounter.Update(key, now, amount)
IntervalCounterUpdate(c, key, amount) ==
    [c EXCEPT !.updates = @ (+) SetToBag({<<key, amount>>})]

\* Meter.Dispose() / Histogram.Dispose()
Dispose(x) == [x EXCEPT !.disposed = @ + 1]

---------------------------------------------------------------------------
(* Registry *)

\* A registry that returns the handles already registered under a name
RegistryLinkHandlesByName(store, linkId) ==
    IF \E i \in 1..Len(store) : store[i].linkId = linkId
    THEN CHOOSE i \in 1..Len(store) : store[i].linkId = linkId
    ELSE Len(store) + 1

\* registry.Meter / registry.Histogram for the six names "link.<linkId>...":
\* the index of the handle set a construction obtains.  The registry is not
\* part of peekhandler.go; as the specification describes construction, each
\* one gets a set of its own, also for a linkId already in use.
RegistryLinkHandles(store, linkId) == Len(store) + 1

NewLinkHandles(linkId) ==
    [ linkId                 |-> linkId,
      linkTxBytesMeter       |-> NewMeter,
      linkTxMsgMeter         |-> NewMeter,
      linkTxMsgSizeHistogram |-> NewHistogram,
      linkRxBytesMeter       |-> NewMeter,
      linkRxMsgMeter         |-> NewMeter,
      linkRxMsgSizeHistogram |-> NewHistogram ]

\* The handles registered under the fixed names "fabric.*": one set, shared by
\* every channel peek handler.
NewAppHandles ==
    [ appTxBytesMeter       |-> NewMeter,
      appTxMsgMeter         |-> NewMeter,
      appTxMsgSizeHistogram |-> NewHistogram,
      appRxBytesMeter       |-> NewMeter,
      appRxMsgMeter         |-> NewMeter,
      appRxMsgSizeHistogram |-> NewHistogram ]

\* The interval counters registered as "usage.fabric.rx" and "usage.fabric.tx"
NewUsageCounters ==
    [ usageRxCounter |-> NewIntervalCounter,
      usageTxCounter |-> NewIntervalCounter ]

NewObserved ==
    [ rxBytes |-> 0, rxMsgs |-> 0, rxSizes |-> EmptyBag,
      txBytes |-> 0, txMsgs |-> 0, txSizes |-> EmptyBag, closes |-> 0 ]

---------------------------------------------------------------------------
(* channelPeekHandler *)

\* closeHook disposing the shared handles along with the link-scoped ones
closeHookDisposesShared(st) ==
    [ link  |-> [f \in DOMAIN st.link |->
                   IF f = "linkId" THEN st.link[f] ELSE Dispose(st.link[f])],
      app   |-> [f \in DOMAIN st.app |-> Dispose(st.app[f])],
      usage |-> [f \in DOMAIN st.usage |-> Dispose(st.usage[f])] ]

\* The closure built by NewChannelPeekHandler, applied to the handles it
\* captured: st = [link |-> the handler's link-scoped set, app |-> the shared
\* set, usage |-> the usage counters].
closeHook(st) ==
    [ link |-> [st.link EXCEPT
                  !.linkTxBytesMeter       = Dispose(@),
                  !.linkTxMsgMeter         = Dispose(@),
                  !.linkTxMsgSizeHistogram = Dispose(@),
                  !.linkRxBytesMeter       = Dispose(@),
                  !.linkRxMsgMeter         = Dispose(@),
                  !.linkRxMsgSizeHistogram = Dispose(@)],
      app   |-> st.app,
      usage |-> st.usage ]

\* RxLink with the byte meter and the message meter mixed up
RxLinkMetersSwapped(ls, msg) ==
    LET msgSize == msg.BodyLen IN
    [ls EXCEPT !.linkRxBytesMeter       = Mark(@, 1),
               !.linkRxMsgMeter         = Mark(@, msgSize),
               !.linkRxMsgSizeHistogram = HistogramUpdate(@, msgSize)]

\* Rx, the three link-scoped updates
RxLink(ls, msg) ==
    LET msgSize == msg.BodyLen IN
    [ls EXCEPT !.linkRxBytesMeter       = Mark(@, msgSize),
               !.linkRxMsgMeter         = Mark(@, 1),
               !.linkRxMsgSizeHistogram = HistogramUpdate(@, msgSize)]

\* RxApp placed after a decode that returns early on failure
RxAppSkipsUndecodable(a, msg) ==
    LET msgSize == msg.BodyLen IN
    IF msg.ContentType = ContentTypePayloadType /\ UnmarshallPayload(msg).err
    THEN a
    ELSE [a EXCEPT !.appRxBytesMeter       = Mark(@, msgSize),
                   !.appRxMsgMeter         = Mark(@, 1),
                   !.appRxMsgSizeHistogram = HistogramUpdate(@, msgSize)]

\* Rx, the three application-wide updates
RxApp(a, msg) ==
    LET msgSize == msg.BodyLen IN
    [a EXCEPT !.appRxBytesMeter       = Mark(@, msgSize),
              !.appRxMsgMeter         = Mark(@, 1),
              !.appRxMsgSizeHistogram = HistogramUpdate(@, msgSize)]

\* RxUsage decoding every message, whatever its content type
RxUsageAnyContentType(s, msg) ==
    LET payload == UnmarshallPayload(msg) IN
    IF payload.err
    THEN [s EXCEPT !.log = @ + 1]
    ELSE [s EXCEPT !.usage.usageRxCounter =
                     IntervalCounterUpdate(@, payload.SessionId, payload.DataLen)]

\* RxUsage accounting the length of the message body instead of the payload data
RxUsageBodyLength(s, msg) ==
    IF msg.ContentType = ContentTypePayloadType
    THEN LET payload == UnmarshallPayload(msg) IN
         IF payload.err
         THEN [s EXCEPT !.log = @ + 1]
         ELSE [s EXCEPT !.usage.usageRxCounter =
                          IntervalCounterUpdate(@, payload.SessionId, msg.BodyLen)]
    ELSE s

\* Rx, the usage accounting of a payload message: s = [usage |-> the usage
\* counters, log |-> the error lines logged]
RxUsage(s, msg) ==
    IF msg.ContentType = ContentTypePayloadType
    THEN LET payload == UnmarshallPayload(msg) IN
         IF payload.err
         THEN [s EXCEPT !.log = @ + 1]
         ELSE [s EXCEPT !.usage.usageRxCounter =
                          IntervalCounterUpdate(@, payload.SessionId, payload.DataLen)]
    ELSE s

TxLink(ls, msg) ==
    LET msgSize == msg.BodyLen IN
    [ls EXCEPT !.linkTxBytesMeter       = Mark(@, msgSize),
               !.linkTxMsgMeter         = Mark(@, 1),
               !.linkTxMsgSizeHistogram = HistogramUpdate(@, msgSize)]

\* TxApp with the byte meter and the message meter mixed up
TxAppMetersSwapped(a, msg) ==
    LET msgSize == msg.BodyLen IN
    [a EXCEPT !.appTxBytesMeter       = Mark(@, 1),
              !.appTxMsgMeter         = Mark(@, msgSize),
              !.appTxMsgSizeHistogram = HistogramUpdate(@, msgSize)]

TxApp(a, msg) ==
    LET msgSize == msg.BodyLen IN
    [a EXCEPT !.appTxBytesMeter       = Mark(@, msgSize),
              !.appTxMsgMeter         = Mark(@, 1),
              !.appTxMsgSizeHistogram = HistogramUpdate(@, msgSize)]

\* TxUsage left with the rx counter of the code it was copied from
TxUsageRxCounter(s, msg) ==
    IF msg.ContentType = ContentTypePayloadType
    THEN LET payload == UnmarshallPayload(msg) IN
         IF payload.err
         THEN [s EXCEPT !.log = @ + 1]
         ELSE [s EXCEPT !.usage.usageRxCounter =
                          IntervalCounterUpdate(@, payload.SessionId, payload.DataLen)]
    ELSE s

TxUsage(s, msg) ==
    IF msg.ContentType = ContentTypePayloadType
    THEN LET payload == UnmarshallPayload(msg) IN
         IF payload.err
         THEN [s EXCEPT !.log = @ + 1]
         ELSE [s EXCEPT !.usage.usageTxCounter =
                          IntervalCounterUpdate(@, payload.SessionId, payload.DataLen)]
    ELSE s

Handlers == 1..Len(handlers)

NewChannelPeekHandler(linkId) ==
    /\ Len(handlers) < MaxTaps
    /\ LET i == RegistryLinkHandles(linkHandles, linkId) IN
         /\ linkHandles' = IF i > Len(linkHandles)
                           THEN Append(linkHandles, NewLinkHandles(linkId))
                           ELSE linkHandles
         /\ handlers' = Append(handlers, [link |-> i, closeHook |-> TRUE])
    /\ observed' = Append(observed, NewObserved)
    /\ UNCHANGED <<appHandles, usage, log, xgressHandles, xobserved, ncalls, running, shadow>>

Connect(h) ==
    /\ h \in Handlers
    /\ UNCHANGED vars

Rx(h, msg) ==
    /\ ncalls < MaxCalls
    /\ linkHandles' = [linkHandles EXCEPT ![handlers[h].link] = RxLink(@, msg)]
    /\ appHandles' = RxApp(appHandles, msg)
    /\ LET s == RxUsage([usage |-> usage, log |-> log], msg)
       IN usage' = s.usage /\ log' = s.log
    /\ observed' = [observed EXCEPT ![h].rxBytes = @ + msg.BodyLen,
                                    ![h].rxMsgs  = @ + 1,
                                    ![h].rxSizes = @ (+) SetToBag({msg.BodyLen})]
    /\ ncalls' = ncalls + 1
    /\ UNCHANGED <<handlers, xgressHandles, xobserved, running, shadow>>

Tx(h, msg) ==
    /\ ncalls < MaxCalls
    /\ linkHandles' = [linkHandles EXCEPT ![handlers[h].link] = TxLink(@, msg)]
    /\ appHandles' = TxApp(appHandles, msg)
    /\ LET s == TxUsage([usage |-> usage, log |-> log], msg)
       IN usage' = s.usage /\ log' = s.log
    /\ observed' = [observed EXCEPT ![h].txBytes = @ + msg.BodyLen,
                                    ![h].txMsgs  = @ + 1,
                                    ![h].txSizes = @ (+) SetToBag({msg.BodyLen})]
    /\ ncalls' = ncalls + 1
    /\ UNCHANGED <<handlers, xgressHandles, xobserved, running, shadow>>

Close(h) ==
    /\ ncalls < MaxCalls
    /\ LET st == [link |-> linkHandles[handlers[h].link], app |-> appHandles,
                  usage |-> usage]
           res == IF handlers[h].closeHook THEN closeHook(st) ELSE st
       IN /\ linkHandles' = [linkHandles EXCEPT ![handlers[h].link] = res.link]
          /\ appHandles' = res.app
          /\ usage' = res.usage
    /\ observed' = [observed EXCEPT ![h].closes = @ + 1]
    /\ ncalls' = ncalls + 1
    /\ UNCHANGED <<handlers, log, xgressHandles, xobserved, running, shadow>>

---------------------------------------------------------------------------
(* xgressPeekHandler *)

NewXgressHandles ==
    [ ingressTxBytesMeter       |-> NewMeter,
      ingressTxMsgMeter         |-> NewMeter,
      ingressRxBytesMeter       |-> NewMeter,
      ingressRxMsgMeter         |-> NewMeter,
      egressTxBytesMeter        |-> NewMeter,
      egressTxMsgMeter          |-> NewMeter,
      egressRxBytesMeter        |-> NewMeter,
      egressRxMsgMeter          |-> NewMeter,
      ingressTxMsgSizeHistogram |-> NewHistogram,
      ingressRxMsgSizeHistogram |-> NewHistogram,
      egressTxMsgSizeHistogram  |-> NewHistogram,
      egressRxMsgSizeHistogram  |-> NewHistogram,
      ingressRxUsageCounter     |-> NewIntervalCounter,
      ingressTxUsageCounter     |-> NewIntervalCounter,
      egressRxUsageCounter      |-> NewIntervalCounter,
      egressTxUsageCounter      |-> NewIntervalCounter ]

\* An xgress.Xgress as the handler reads it: Originator() and SessionId().Token
Xgresses == [Originator : Originators, Token : SessionIds]
\* An xgress.Payload as the handler reads it: len(Data)
Payloads == [DataLen : Sizes]

\* xgressRx with the byte meter and the message meter mixed up
xgressRxMetersSwapped(handler, x, payload) ==
    LET msgSize == payload.DataLen IN
    IF x.Originator = Initiator
    THEN [handler EXCEPT
            !.ingressRxUsageCounter     = IntervalCounterUpdate(@, x.Token, msgSize),
            !.ingressRxMsgMeter         = Mark(@, msgSize),
            !.ingressRxBytesMeter       = Mark(@, 1),
            !.ingressRxMsgSizeHistogram = HistogramUpdate(@, msgSize)]
    ELSE [handler EXCEPT
            !.egressRxUsageCounter     = IntervalCounterUpdate(@, x.Token, msgSize),
            !.egressRxMsgMeter         = Mark(@, msgSize),
            !.egressRxBytesMeter       = Mark(@, 1),
            !.egressRxMsgSizeHistogram = HistogramUpdate(@, msgSize)]

xgressRx(handler, x, payload) ==
    LET msgSize == payload.DataLen IN
    IF x.Originator = Initiator
    THEN [handler EXCEPT
            !.ingressRxUsageCounter     = IntervalCounterUpdate(@, x.Token, msgSize),
            !.ingressRxMsgMeter         = Mark(@, 1),
            !.ingressRxBytesMeter       = Mark(@, msgSize),
            !.ingressRxMsgSizeHistogram = HistogramUpdate(@, msgSize)]
    ELSE [handler EXCEPT
            !.egressRxUsageCounter     = IntervalCounterUpdate(@, x.Token, msgSize),
            !.egressRxMsgMeter         = Mark(@, 1),
            !.egressRxBytesMeter       = Mark(@, msgSize),
            !.egressRxMsgSizeHistogram = HistogramUpdate(@, msgSize)]

\* xgressTx accounting one unit of usage per payload instead of its length
xgressTxUsagePerPayload(handler, x, payload) ==
    LET msgSize == payload.DataLen IN
    IF x.Originator = Initiator
    THEN [handler EXCEPT
            !.ingressTxUsageCounter     = IntervalCounterUpdate(@, x.Token, 1),
            !.ingressTxMsgMeter         = Mark(@, 1),
            !.ingressTxBytesMeter       = Mark(@, msgSize),
            !.ingressTxMsgSizeHistogram = HistogramUpdate(@, msgSize)]
    ELSE [handler EXCEPT
            !.egressTxUsageCounter     = IntervalCounterUpdate(@, x.Token, 1),
            !.egressTxMsgMeter         = Mark(@, 1),
            !.egressTxBytesMeter       = Mark(@, msgSize),
            !.egressTxMsgSizeHistogram = HistogramUpdate(@, msgSize)]

\* xgressTx classifying by the opposite originator
xgressTxClassInverted(handler, x, payload) ==
    LET msgSize == payload.DataLen IN
    IF x.Originator # Initiator
    THEN [handler EXCEPT
            !.ingressTxUsageCounter     = IntervalCounterUpdate(@, x.Token, msgSize),
            !.ingressTxMsgMeter         = Mark(@, 1),
            !.ingressTxBytesMeter       = Mark(@, msgSize),
            !.ingressTxMsgSizeHistogram = HistogramUpdate(@, msgSize)]
    ELSE [handler EXCEPT
            !.egressTxUsageCounter     = IntervalCounterUpdate(@, x.Token, msgSize),
            !.egressTxMsgMeter         = Mark(@, 1),
            !.egressTxBytesMeter       = Mark(@, msgSize),
            !.egressTxMsgSizeHistogram = HistogramUpdate(@, msgSize)]

xgressTx(handler, x, payload) ==
    LET msgSize == payload.DataLen IN
    IF x.Originator = Initiator
    THEN [handler EXCEPT
            !.ingressTxUsageCounter     = IntervalCounterUpdate(@, x.Token, msgSize),
            !.ingressTxMsgMeter         = Mark(@, 1),
            !.ingressTxBytesMeter       = Mark(@, msgSize),
            !.ingressTxMsgSizeHistogram = HistogramUpdate(@, msgSize)]
    ELSE [handler EXCEPT
            !.egressTxUsageCounter     = IntervalCounterUpdate(@, x.Token, msgSize),
            !.egressTxMsgMeter         = Mark(@, 1),
            !.egressTxBytesMeter       = Mark(@, msgSize),
            !.egressTxMsgSizeHistogram = HistogramUpdate(@, msgSize)]

XgressRx(x, payload) ==
    /\ ncalls < MaxCalls
    /\ xgressHandles' = xgressRx(xgressHandles, x, payload)
    /\ xobserved' = xobserved (+) SetToBag({[op |-> "Rx", x |-> x, payload |-> payload]})
    /\ ncalls' = ncalls + 1
    /\ UNCHANGED <<handlers, linkHandles, appHandles, usage, log, observed, running, shadow>>

XgressTx(x, payload) ==
    /\ ncalls < MaxCalls
    /\ xgressHandles' = xgressTx(xgressHandles, x, payload)
    /\ xobserved' = xobserved (+) SetToBag({[op |-> "Tx", x |-> x, payload |-> payload]})
    /\ ncalls' = ncalls + 1
    /\ UNCHANGED <<handlers, linkHandles, appHandles, usage, log, observed, running, shadow>>

XgressClose(x) ==
    /\ x \in Xgresses
    /\ UNCHANGED vars

\* Nothing has run yet: no link-scoped set, the shared handles as registered,
\* no Connect or xgress Close made, no call entered while another was in progress.
NewShadow ==
    [ link |-> <<>>, app |-> NewAppHandles, usage |-> NewUsageCounters, log |-> 0,
      xgress |-> NewXgressHandles, hooks |-> EmptyBag, overlap |-> FALSE ]

---------------------------------------------------------------------------
(* Specifications *)

Init ==
    /\ handlers = <<>>
    /\ linkHandles = <<>>
    /\ appHandles = NewAppHandles
    /\ usage = NewUsageCounters
    /\ log = 0
    /\ xgressHandles = NewXgressHandles
    /\ observed = <<>>
    /\ xobserved = EmptyBag
    /\ ncalls = 0
    /\ running = EmptyBag
    /\ shadow = NewShadow

\* The channel peek handlers of one process: constructions and calls in any order.
Next ==
    \/ \E linkId \in LinkIds : NewChannelPeekHandler(linkId)
    \/ \E h \in Handlers : Connect(h)
    \/ \E h \in Handlers, msg \in Messages : Rx(h, msg)
    \/ \E h \in Handlers, msg \in Messages : Tx(h, msg)
    \/ \E h \in Handlers : Close(h)

Spec == Init /\ [][Next]_vars

\* The xgress peek handler of one process.
XgNext ==
    \/ \E x \in Xgresses, payload \in Payloads : XgressRx(x, payload)
    \/ \E x \in Xgresses, payload \in Payloads : XgressTx(x, payload)
    \/ \E x \in Xgresses : XgressClose(x)

XgSpec == Init /\ [][XgNext]_vars

---------------------------------------------------------------------------
(* Calls in progress.  The transport and session layers invoke one handler  *)
(* from several goroutines, so a call is a sequence of statements that      *)
(* interleaves with the statements of the other calls in progress.  pc is   *)
(* the number of handle statements the call has executed.                   *)

\* The I/O workers of the owning layer that can be inside a handler at once
Goroutines == {"g1", "g2"}

NoMessage == [ContentType |-> ContentTypePayloadType + 1, BodyLen |-> 0,
              decodes |-> FALSE, SessionId |-> "", DataLen |-> 0]
NoXgress == [Originator |-> "", Token |-> ""]
NoPayload == [DataLen |-> 0]

\* The messages delivered while calls overlap: a payload that decodes, a
\* payload that does not, and a message of another content type
ConcMessages ==
    { [ContentType |-> ContentTypePayloadType, BodyLen |-> 1, decodes |-> TRUE,
       SessionId |-> "S1", DataLen |-> 1],
      [ContentType |-> ContentTypePayloadType, BodyLen |-> 1, decodes |-> FALSE,
       SessionId |-> "", DataLen |-> 0],
      [ContentType |-> ContentTypePayloadType + 1, BodyLen |-> 0, decodes |-> FALSE,
       SessionId |-> "", DataLen |-> 0] }

\* The xgress of either class and the payload delivered while calls overlap
ConcXgresses == [Originator : Originators, Token : {"S1"}]
ConcPayloads == [DataLen : {1}]

ChannelCalls ==
    [op : {"Rx", "Tx"}, msg : ConcMessages, x : {NoXgress}, payload : {NoPayload}, pc : {0}]
    \cup [op : {"Close"}, msg : {NoMessage}, x : {NoXgress}, payload : {NoPayload}, pc : {0}]

XgressCalls ==
    [op : {"XgressRx", "XgressTx"}, msg : {NoMessage}, x : ConcXgresses,
     payload : ConcPayloads, pc : {0}]

\* The number of handle statements of a call
Statements(op) ==
    CASE op \in {"Rx", "Tx"}             -> 7
      [] op = "Close"                    -> 6
      [] op \in {"XgressRx", "XgressTx"} -> 4

\* RxStatement with the decode and usage accounting ahead of the meters
RxStatementUsageFirst(pc, st, msg) ==
    LET msgSize == msg.BodyLen IN
    CASE pc = 0 -> LET s == RxUsage([usage |-> st.usage, log |-> st.log], msg)
                   IN [st EXCEPT !.usage = s.usage, !.log = s.log]
      [] pc = 1 -> [st EXCEPT !.link.linkRxBytesMeter       = Mark(@, msgSize)]
      [] pc = 2 -> [st EXCEPT !.link.linkRxMsgMeter         = Mark(@, 1)]
      [] pc = 3 -> [st EXCEPT !.link.linkRxMsgSizeHistogram = HistogramUpdate(@, msgSize)]
      [] pc = 4 -> [st EXCEPT !.app.appRxBytesMeter         = Mark(@, msgSize)]
      [] pc = 5 -> [st EXCEPT !.app.appRxMsgMeter           = Mark(@, 1)]
      [] pc = 6 -> [st EXCEPT !.app.appRxMsgSizeHistogram   = HistogramUpdate(@, msgSize)]

\* Statement pc of channelPeekHandler.Rx applied to st = [link |-> the
\* handler's link-scoped set, app |-> the shared set, usage |-> the usage
\* counters, log |-> the error lines logged]; the last statement is the
\* content-type test with the decode and the usage update it guards.
RxStatement(pc, st, msg) ==
    LET msgSize == msg.BodyLen IN
    CASE pc = 0 -> [st EXCEPT !.link.linkRxBytesMeter       = Mark(@, msgSize)]
      [] pc = 1 -> [st EXCEPT !.link.linkRxMsgMeter         = Mark(@, 1)]
      [] pc = 2 -> [st EXCEPT !.link.linkRxMsgSizeHistogram = HistogramUpdate(@, msgSize)]
      [] pc = 3 -> [st EXCEPT !.app.appRxBytesMeter         = Mark(@, msgSize)]
      [] pc = 4 -> [st EXCEPT !.app.appRxMsgMeter           = Mark(@, 1)]
      [] pc = 5 -> [st EXCEPT !.app.appRxMsgSizeHistogram   = HistogramUpdate(@, msgSize)]
      [] pc = 6 -> LET s == RxUsage([usage |-> st.usage, log |-> st.log], msg)
                   IN [st EXCEPT !.usage = s.usage, !.log = s.log]

\* TxStatement without the message-meter mark of the shared set
TxStatementLosesMark(pc, st, msg) ==
    LET msgSize == msg.BodyLen IN
    CASE pc = 0 -> [st EXCEPT !.link.linkTxBytesMeter       = Mark(@, msgSize)]
      [] pc = 1 -> [st EXCEPT !.link.linkTxMsgMeter         = Mark(@, 1)]
      [] pc = 2 -> [st EXCEPT !.link.linkTxMsgSizeHistogram = HistogramUpdate(@, msgSize)]
      [] pc = 3 -> [st EXCEPT !.app.appTxBytesMeter         = Mark(@, msgSize)]
      [] pc = 4 -> st
      [] pc = 5 -> [st EXCEPT !.app.appTxMsgSizeHistogram   = HistogramUpdate(@, msgSize)]
      [] pc = 6 -> LET s == TxUsage([usage |-> st.usage, log |-> st.log], msg)
                   IN [st EXCEPT !.usage = s.usage, !.log = s.log]

\* Statement pc of channelPeekHandler.Tx
TxStatement(pc, st, msg) ==
    LET msgSize == msg.BodyLen IN
    CASE pc = 0 -> [st EXCEPT !.link.linkTxBytesMeter       = Mark(@, msgSize)]
      [] pc = 1 -> [st EXCEPT !.link.linkTxMsgMeter         = Mark(@, 1)]
      [] pc = 2 -> [st EXCEPT !.link.linkTxMsgSizeHistogram = HistogramUpdate(@, msgSize)]
      [] pc = 3 -> [st EXCEPT !.app.appTxBytesMeter         = Mark(@, msgSize)]
      [] pc = 4 -> [st EXCEPT !.app.appTxMsgMeter           = Mark(@, 1)]
      [] pc = 5 -> [st EXCEPT !.app.appTxMsgSizeHistogram   = HistogramUpdate(@, msgSize)]
      [] pc = 6 -> LET s == TxUsage([usage |-> st.usage, log |-> st.log], msg)
                   IN [st EXCEPT !.usage = s.usage, !.log = s.log]

\* Statement pc of the closeHook closure
closeHookStatement(pc, st) ==
    CASE pc = 0 -> [st EXCEPT !.link.linkTxBytesMeter       = Dispose(@)]
      [] pc = 1 -> [st EXCEPT !.link.linkTxMsgMeter         = Dispose(@)]
      [] pc = 2 -> [st EXCEPT !.link.linkTxMsgSizeHistogram = Dispose(@)]
      [] pc = 3 -> [st EXCEPT !.link.linkRxBytesMeter       = Dispose(@)]
      [] pc = 4 -> [st EXCEPT !.link.linkRxMsgMeter         = Dispose(@)]
      [] pc = 5 -> [st EXCEPT !.link.linkRxMsgSizeHistogram = Dispose(@)]

\* Statement pc of xgressPeekHandler.Rx
xgressRxStatement(pc, handler, x, payload) ==
    LET msgSize == payload.DataLen
        class == IF x.Originator = Initiator THEN "ingress" ELSE "egress"
    IN CASE pc = 0 -> [handler EXCEPT ![class \o "RxUsageCounter"] =
                         IntervalCounterUpdate(@, x.Token, msgSize)]
         [] pc = 1 -> [handler EXCEPT ![class \o "RxMsgMeter"] = Mark(@, 1)]
         [] pc = 2 -> [handler EXCEPT ![class \o "RxBytesMeter"] = Mark(@, msgSize)]
         [] pc = 3 -> [handler EXCEPT ![class \o "RxMsgSizeHistogram"] =
                         HistogramUpdate(@, msgSize)]

\* Statement pc of xgressPeekHandler.Tx
xgressTxStatement(pc, handler, x, payload) ==
    LET msgSize == payload.DataLen
        class == IF x.Originator = Initiator THEN "ingress" ELSE "egress"
    IN CASE pc = 0 -> [handler EXCEPT ![class \o "TxUsageCounter"] =
                         IntervalCounterUpdate(@, x.Token, msgSize)]
         [] pc = 1 -> [handler EXCEPT ![class \o "TxMsgMeter"] = Mark(@, 1)]
         [] pc = 2 -> [handler EXCEPT ![class \o "TxBytesMeter"] = Mark(@, msgSize)]
         [] pc = 3 -> [handler EXCEPT ![class \o "TxMsgSizeHistogram"] =
                         HistogramUpdate(@, msgSize)]

\* A handler whose calls wait until no call of another kind is in progress
ExcludedByAnyOther(c, r) ==
    \E d \in BagToSet(r) : d.op # c.op

\* A handler whose Rx and Tx wait while a Close is in progress
ExcludedByClose(c, r) ==
    c.op \in {"Rx", "Tx"} /\ \E d \in BagToSet(r) : d.op = "Close"

\* Whether call c has to wait for one of the calls r in progress: neither
\* handler type has a lock field and no method takes, waits for or tests one.
Excluded(c, r) == FALSE

\* An xgressPeekHandler.Close that releases the handler's handles
xgressPeekHandlerCloseDisposes(handler) ==
    [f \in DOMAIN handler |-> Dispose(handler[f])]

\* The body of channelPeekHandler.Connect: empty
channelPeekHandlerConnect(st) == st

\* The body of xgressPeekHandler.Close: empty
xgressPeekHandlerClose(handler) == handler

\* history: call c run alone on the handles sh, as Rx, Tx, Close, XgressRx
\* and XgressTx run it when nothing else is in progress
Sequential(sh, c) ==
    CASE c.op = "Rx" ->
           LET s == RxUsage([usage |-> sh.usage, log |-> sh.log], c.msg)
           IN [sh EXCEPT !.link[1] = RxLink(@, c.msg), !.app = RxApp(@, c.msg),
                         !.usage = s.usage, !.log = s.log]
      [] c.op = "Tx" ->
           LET s == TxUsage([usage |-> sh.usage, log |-> sh.log], c.msg)
           IN [sh EXCEPT !.link[1] = TxLink(@, c.msg), !.app = TxApp(@, c.msg),
                         !.usage = s.usage, !.log = s.log]
      [] c.op = "Close" ->
           LET res == closeHook([link |-> sh.link[1], app |-> sh.app, usage |-> sh.usage])
           IN [sh EXCEPT !.link[1] = res.link, !.app = res.app, !.usage = res.usage]
      [] c.op = "XgressRx" -> [sh EXCEPT !.xgress = xgressRx(@, c.x, c.payload)]
      [] c.op = "XgressTx" -> [sh EXCEPT !.xgress = xgressTx(@, c.x, c.payload)]

\* The handles a channel peek handler call works on (the one handler of ConcInit)
ChanState ==
    [link |-> linkHandles[handlers[1].link], app |-> appHandles, usage |-> usage, log |-> log]

\* Call c has executed one more statement; it returns after its last one.
Advance(c) ==
    running' = IF c.pc + 1 < Statements(c.op)
               THEN (running (-) SetToBag({c})) (+) SetToBag({[c EXCEPT !.pc = @ + 1]})
               ELSE running (-) SetToBag({c})

\* A goroutine enters Rx, Tx or Close of one of the handlers (msgSize is
\* computed, the closeHook is found non-nil); no handle is touched yet.
Enter(c) ==
    /\ ncalls < MaxCalls
    /\ BagCardinality(running) < Cardinality(Goroutines)
    /\ running' = running (+) SetToBag({c})
    /\ shadow' = [Sequential(shadow, c) EXCEPT !.overlap = @ \/ running # EmptyBag]
    /\ ncalls' = ncalls + 1
    /\ UNCHANGED <<handlers, linkHandles, appHandles, usage, log, xgressHandles,
                   observed, xobserved>>

\* The next statement of a channel peek handler call in progress
ChannelStep(c) ==
    /\ BagIn(c, running)
    /\ c.op \in {"Rx", "Tx", "Close"}
    /\ ~Excluded(c, running)
    /\ LET st == CASE c.op = "Rx"    -> RxStatement(c.pc, ChanState, c.msg)
                   [] c.op = "Tx"    -> TxStatement(c.pc, ChanState, c.msg)
                   [] c.op = "Close" -> closeHookStatement(c.pc, ChanState)
       IN /\ linkHandles' = [linkHandles EXCEPT ![handlers[1].link] = st.link]
          /\ appHandles' = st.app
          /\ usage' = st.usage
          /\ log' = st.log
    /\ Advance(c)
    /\ UNCHANGED <<handlers, xgressHandles, observed, xobserved, ncalls, shadow>>

\* The next statement of an xgress peek handler call in progress
XgressStep(c) ==
    /\ BagIn(c, running)
    /\ c.op \in {"XgressRx", "XgressTx"}
    /\ ~Excluded(c, running)
    /\ xgressHandles' =
         IF c.op = "XgressRx"
         THEN xgressRxStatement(c.pc, xgressHandles, c.x, c.payload)
         ELSE xgressTxStatement(c.pc, xgressHandles, c.x, c.payload)
    /\ Advance(c)
    /\ UNCHANGED <<handlers, linkHandles, appHandles, usage, log, observed, xobserved,
                   ncalls, shadow>>

\* channelPeekHandler.Connect, called while other calls may be in progress
ConnectCall ==
    /\ ncalls < MaxCalls
    /\ LET st == channelPeekHandlerConnect(ChanState)
       IN /\ linkHandles' = [linkHandles EXCEPT ![handlers[1].link] = st.link]
          /\ appHandles' = st.app
          /\ usage' = st.usage
          /\ log' = st.log
    /\ shadow' = [shadow EXCEPT !.hooks = @ (+) SetToBag({"Connect"})]
    /\ ncalls' = ncalls + 1
    /\ UNCHANGED <<handlers, xgressHandles, observed, xobserved, running>>

\* xgressPeekHandler.Close, called while other calls may be in progress
XgressCloseCall ==
    /\ ncalls < MaxCalls
    /\ xgressHandles' = xgressPeekHandlerClose(xgressHandles)
    /\ shadow' = [shadow EXCEPT !.hooks = @ (+) SetToBag({"Close"})]
    /\ ncalls' = ncalls + 1
    /\ UNCHANGED <<handlers, linkHandles, appHandles, usage, log, observed, xobserved,
                   running>>

\* One channel peek handler, built for link L1, and the xgress peek handler
ConcInit ==
    /\ handlers = <<[link |-> 1, closeHook |-> TRUE]>>
    /\ linkHandles = <<NewLinkHandles("L1")>>
    /\ appHandles = NewAppHandles
    /\ usage = NewUsageCounters
    /\ log = 0
    /\ xgressHandles = NewXgressHandles
    /\ observed = <<NewObserved>>
    /\ xobserved = EmptyBag
    /\ ncalls = 0
    /\ running = EmptyBag
    /\ shadow = [NewShadow EXCEPT !.link = <<NewLinkHandles("L1")>>]

Step(c) == ChannelStep(c) \/ XgressStep(c)

\* The two handlers of one process with their calls overlapping
ConcNext ==
    \/ \E c \in ChannelCalls \cup XgressCalls : Enter(c)
    \/ \E c \in BagToSet(running) : ChannelStep(c)
    \/ \E c \in BagToSet(running) : XgressStep(c)
    \/ ConnectCall
    \/ XgressCloseCall

ConcSpec == ConcInit /\ [][ConcNext]_vars

\* The goroutine of a call in progress is scheduled again: a call that can
\* execute its next statement eventually does.
ConcFairSpec == ConcSpec /\ WF_vars(\E c \in BagToSet(running) : Step(c))

---------------------------------------------------------------------------
(* Helpers for the properties *)

Link(h) == linkHandles[handlers[h].link]

RECURSIVE SumOver(_, _)
\* the sum of f[i] for i in 1..n
SumOver(f, n) == IF n = 0 THEN 0 ELSE f[n] + SumOver(f, n - 1)

RECURSIVE BagSumOver(_, _)
\* the bag union of f[i] for i in 1..n
BagSumOver(f, n) == IF n = 0 THEN EmptyBag ELSE f[n] (+) BagSumOver(f, n - 1)

LinkMeters == {"linkTxBytesMeter", "linkTxMsgMeter", "linkRxBytesMeter", "linkRxMsgMeter"}
LinkHistograms == {"linkTxMsgSizeHistogram", "linkRxMsgSizeHistogram"}
LinkFields == LinkMeters \cup LinkHistograms
LinkRxFields == {"linkRxBytesMeter", "linkRxMsgMeter", "linkRxMsgSizeHistogram"}
LinkTxFields == {"linkTxBytesMeter", "linkTxMsgMeter", "linkTxMsgSizeHistogram"}
AppRxFields == {"appRxBytesMeter", "appRxMsgMeter", "appRxMsgSizeHistogram"}
AppTxFields == {"appTxBytesMeter", "appTxMsgMeter", "appTxMsgSizeHistogram"}
AppFields == AppRxFields \cup AppTxFields
UsageFields == {"usageRxCounter", "usageTxCounter"}

---------------------------------------------------------------------------
(* C1: after N messages of sizes s1..sN were delivered to Rx of a channel  *)
(* peek handler that was never closed, its link-scoped rx byte meter       *)
(* totals the sum of the sizes, its rx message meter counts N and its rx   *)
(* histogram holds exactly the N sizes; the application-wide rx handles    *)
(* got the same updates, so they total what all handlers were delivered.   *)
C1_RxTotals ==
    /\ \A h \in Handlers :
         observed[h].closes = 0 =>
           /\ Link(h).linkRxBytesMeter.count = observed[h].rxBytes
           /\ Link(h).linkRxMsgMeter.count = observed[h].rxMsgs
           /\ Link(h).linkRxMsgSizeHistogram.samples = observed[h].rxSizes
    /\ appHandles.appRxBytesMeter.count =
         SumOver([h \in Handlers |-> observed[h].rxBytes], Len(handlers))
    /\ appHandles.appRxMsgMeter.count =
         SumOver([h \in Handlers |-> observed[h].rxMsgs], Len(handlers))
    /\ appHandles.appRxMsgSizeHistogram.samples =
         BagSumOver([h \in Handlers |-> observed[h].rxSizes], Len(handlers))

\* two messages of different sizes were delivered to Rx of one open handler
C1_Witness ==
    \E h \in Handlers :
      /\ observed[h].closes = 0
      /\ observed[h].rxMsgs = 2
      /\ observed[h].rxBytes = 1
      /\ Link(h).linkRxBytesMeter.count = 1
      /\ Link(h).linkRxMsgMeter.count = 2

(* C2: each of the six link-scoped handles of a handler is disposed at     *)
(* most once, also when Close is called more than once.                    *)
C2_DisposedAtMostOnce ==
    \A i \in 1..Len(linkHandles) : \A f \in LinkFields : linkHandles[i][f].disposed <= 1

(* C3: no link-scoped meter or histogram receives a Mark/Update after it   *)
(* was disposed.                                                           *)
C3_NoUpdateAfterDispose ==
    \A i \in 1..Len(linkHandles) : \A f \in LinkFields : linkHandles[i][f].stale = 0

(* C4: Close of a handler disposes exactly its six link-scoped handles; it *)
(* leaves every other link-scoped set, the six application-wide handles    *)
(* and both usage counters as they were, and these are never disposed.     *)
C4_SharedUndisposed ==
    /\ \A f \in AppFields : appHandles[f].disposed = 0
    /\ \A f \in UsageFields : usage[f].disposed = 0

C4_CloseStep ==
    \A h \in Handlers :
      observed'[h].closes = observed[h].closes + 1 =>
        /\ \A f \in LinkFields :
             linkHandles'[handlers[h].link][f] = Dispose(Link(h)[f])
        /\ \A i \in 1..Len(linkHandles) :
             i # handlers[h].link => linkHandles'[i] = linkHandles[i]
        /\ appHandles' = appHandles
        /\ usage' = usage

C4_CloseFrame == []C4_SharedUndisposed /\ [][C4_CloseStep]_vars

\* a handler that observed a message was closed
C4_Witness ==
    \E h \in Handlers :
      /\ observed[h].closes = 1
      /\ observed[h].rxMsgs = 1
      /\ \A f \in LinkFields : Link(h)[f].disposed = 1
      /\ appHandles.appRxMsgMeter.count = 1
      /\ C4_SharedUndisposed

(* C5: an Rx (Tx) of a message of the payload content type whose body      *)
(* decodes to session T and data of length d adds exactly one update       *)
(* (T, d) to the inbound (outbound) usage counter, d being the decoded     *)
(* data length, and leaves the other usage counter unchanged.              *)
C5_UsageStep ==
    \A h \in Handlers, msg \in Messages :
      (msg.ContentType = ContentTypePayloadType /\ msg.decodes) =>
        /\ Rx(h, msg) =>
             /\ usage'.usageRxCounter.updates =
                  usage.usageRxCounter.updates (+) SetToBag({<<msg.SessionId, msg.DataLen>>})
             /\ usage'.usageTxCounter = usage.usageTxCounter
        /\ Tx(h, msg) =>
             /\ usage'.usageTxCounter.updates =
                  usage.usageTxCounter.updates (+) SetToBag({<<msg.SessionId, msg.DataLen>>})
             /\ usage'.usageRxCounter = usage.usageRxCounter

C5_UsageUpdate == [][C5_UsageStep]_vars

\* one payload message with a body of length 1 carrying no data was received
C5_Witness ==
    /\ usage.usageRxCounter.updates = SetToBag({<<"S1", 0>>})
    /\ usage.usageTxCounter.updates = EmptyBag
    /\ appHandles.appRxMsgMeter.count = 1
    /\ appHandles.appRxBytesMeter.count = 1

(* C6: an Rx (Tx) of a message of the payload content type whose body does *)
(* not decode leaves both usage counters unchanged, and the link-scoped    *)
(* and application-wide byte meter, message meter and histogram of that    *)
(* direction are updated by the length of the message body all the same.   *)
C6_DecodeFailureStep ==
    \A h \in Handlers, msg \in Messages :
      (msg.ContentType = ContentTypePayloadType /\ ~msg.decodes) =>
        /\ Rx(h, msg) =>
             /\ usage' = usage
             /\ linkHandles'[handlers[h].link].linkRxBytesMeter.count =
                  Link(h).linkRxBytesMeter.count + msg.BodyLen
             /\ linkHandles'[handlers[h].link].linkRxMsgMeter.count =
                  Link(h).linkRxMsgMeter.count + 1
             /\ linkHandles'[handlers[h].link].linkRxMsgSizeHistogram.samples =
                  Link(h).linkRxMsgSizeHistogram.samples (+) SetToBag({msg.BodyLen})
             /\ appHandles'.appRxBytesMeter.count =
                  appHandles.appRxBytesMeter.count + msg.BodyLen
             /\ appHandles'.appRxMsgMeter.count = appHandles.appRxMsgMeter.count + 1
             /\ appHandles'.appRxMsgSizeHistogram.samples =
                  appHandles.appRxMsgSizeHistogram.samples (+) SetToBag({msg.BodyLen})
        /\ Tx(h, msg) =>
             /\ usage' = usage
             /\ linkHandles'[handlers[h].link].linkTxBytesMeter.count =
                  Link(h).linkTxBytesMeter.count + msg.BodyLen
             /\ linkHandles'[handlers[h].link].linkTxMsgMeter.count =
                  Link(h).linkTxMsgMeter.count + 1
             /\ linkHandles'[handlers[h].link].linkTxMsgSizeHistogram.samples =
                  Link(h).linkTxMsgSizeHistogram.samples (+) SetToBag({msg.BodyLen})
             /\ appHandles'.appTxBytesMeter.count =
                  appHandles.appTxBytesMeter.count + msg.BodyLen
             /\ appHandles'.appTxMsgMeter.count = appHandles.appTxMsgMeter.count + 1
             /\ appHandles'.appTxMsgSizeHistogram.samples =
                  appHandles.appTxMsgSizeHistogram.samples (+) SetToBag({msg.BodyLen})

C6_DecodeFailure == [][C6_DecodeFailureStep]_vars

\* an undecodable payload message of length 1 was received and the call returned
C6_Witness ==
    /\ log = 1
    /\ ncalls = 1
    /\ usage = NewUsageCounters
    /\ appHandles.appRxBytesMeter.count = 1
    /\ appHandles.appRxMsgMeter.count = 1
    /\ \E h \in Handlers : Link(h).linkRxBytesMeter.count = 1

---------------------------------------------------------------------------
(* xgress peek handler: the handles of a class and direction *)

Classes == {"ingress", "egress"}
Directions == {"Rx", "Tx"}

ClassOf(originator) == IF originator = Initiator THEN "ingress" ELSE "egress"

\* the four handles of class c and direction d: usage counter, message
\* meter, byte meter, size histogram
XgFields(c, d) ==
    [ usage |-> c \o d \o "UsageCounter",
      msgs  |-> c \o d \o "MsgMeter",
      bytes |-> c \o d \o "BytesMeter",
      hist  |-> c \o d \o "MsgSizeHistogram" ]

XgFieldSet(c, d) == { XgFields(c, d)[k] : k \in DOMAIN XgFields(c, d) }

\* the calls observed with direction d on flows of class c
XgCalls(c, d) ==
    { e \in BagToSet(xobserved) : e.op = d /\ ClassOf(e.x.Originator) = c }

RECURSIVE XgCount(_)
\* how many calls of the set es were made
XgCount(es) ==
    IF es = {} THEN 0
    ELSE LET e == CHOOSE e \in es : TRUE
         IN CopiesIn(e, xobserved) + XgCount(es \ {e})

RECURSIVE XgBytes(_)
\* the data lengths of the calls of the set es, summed
XgBytes(es) ==
    IF es = {} THEN 0
    ELSE LET e == CHOOSE e \in es : TRUE
         IN CopiesIn(e, xobserved) * e.payload.DataLen + XgBytes(es \ {e})

(* C7: an Rx/Tx on a flow whose originator is Initiator updates only the   *)
(* ingress handles of its direction and one on any other flow only the     *)
(* egress handles of its direction: each class/direction's handles hold    *)
(* exactly the calls made in that direction on flows of that class.        *)
C7_Classification ==
    \A c \in Classes, d \in Directions :
      LET f == XgFields(c, d) IN
        /\ xgressHandles[f.msgs].count = XgCount(XgCalls(c, d))
        /\ BagCardinality(xgressHandles[f.hist].samples) = XgCount(XgCalls(c, d))
        /\ BagCardinality(xgressHandles[f.usage].updates) = XgCount(XgCalls(c, d))
        /\ xgressHandles[f.bytes].count = XgBytes(XgCalls(c, d))

\* an Rx on an initiator flow and a Tx on a terminator flow were observed
C7_Witness ==
    /\ \E e \in BagToSet(xobserved) : e.op = "Rx" /\ e.x.Originator = Initiator
    /\ \E e \in BagToSet(xobserved) : e.op = "Tx" /\ e.x.Originator # Initiator
    /\ xgressHandles.ingressRxMsgMeter.count = 1
    /\ xgressHandles.egressTxMsgMeter.count = 1
    /\ xgressHandles.ingressTxMsgMeter.count = 0
    /\ xgressHandles.egressRxMsgMeter.count = 0

(* C8: an Rx (Tx) of a payload with data length n on a flow with session   *)
(* token sid makes exactly four updates, all on the handles of the flow's  *)
(* class and the rx (tx) direction: usage (sid, n), message meter +1, byte *)
(* meter +n, histogram n; every other handle is unchanged.  So after Rx    *)
(* then Tx on one initiator flow of S2 the ingress-rx and ingress-tx       *)
(* handles hold the two lengths and the egress handles are untouched.      *)
C8_FourUpdatesStep ==
    \A d \in Directions, x \in Xgresses, payload \in Payloads :
      xobserved' = xobserved (+) SetToBag({[op |-> d, x |-> x, payload |-> payload]}) =>
        LET f == XgFields(ClassOf(x.Originator), d)
            n == payload.DataLen
        IN /\ xgressHandles'[f.usage] =
                IntervalCounterUpdate(xgressHandles[f.usage], x.Token, n)
           /\ xgressHandles'[f.msgs] = Mark(xgressHandles[f.msgs], 1)
           /\ xgressHandles'[f.bytes] = Mark(xgressHandles[f.bytes], n)
           /\ xgressHandles'[f.hist] = HistogramUpdate(xgressHandles[f.hist], n)
           /\ \A g \in DOMAIN xgressHandles \ XgFieldSet(ClassOf(x.Originator), d) :
                xgressHandles'[g] = xgressHandles[g]

C8_Scenario ==
    \A n, m \in Sizes :
      LET flow == [Originator |-> Initiator, Token |-> "S2"] IN
      xobserved = SetToBag({[op |-> "Rx", x |-> flow, payload |-> [DataLen |-> n]]})
                    (+) SetToBag({[op |-> "Tx", x |-> flow, payload |-> [DataLen |-> m]]})
      => /\ xgressHandles.ingressRxBytesMeter.count = n
         /\ xgressHandles.ingressTxBytesMeter.count = m
         /\ xgressHandles.ingressRxUsageCounter.updates = SetToBag({<<"S2", n>>})
         /\ xgressHandles.ingressTxUsageCounter.updates = SetToBag({<<"S2", m>>})
         /\ \A d \in Directions : \A g \in XgFieldSet("egress", d) :
              xgressHandles[g] = NewXgressHandles[g]

C8_FourUpdates == []C8_Scenario /\ [][C8_FourUpdatesStep]_vars

\* Rx of length 1 then Tx of length 0 on an initiator flow of session S2
C8_Witness ==
    LET flow == [Originator |-> Initiator, Token |-> "S2"] IN
    /\ xobserved = SetToBag({[op |-> "Rx", x |-> flow, payload |-> [DataLen |-> 1]]})
                     (+) SetToBag({[op |-> "Tx", x |-> flow, payload |-> [DataLen |-> 0]]})
    /\ xgressHandles.ingressRxBytesMeter.count = 1
    /\ xgressHandles.ingressTxMsgMeter.count = 1

---------------------------------------------------------------------------
(* C9: two channel peek handlers constructed with the same linkId have two *)
(* independent link-scoped handle sets: each set carries only what its own *)
(* handler observed, and is disposed only by its own handler's Close.      *)
C9_IndependentLinkSets ==
    \A h1, h2 \in Handlers :
      (h1 # h2 /\ Link(h1).linkId = Link(h2).linkId) =>
        /\ handlers[h1].link # handlers[h2].link
        /\ Link(h1).linkRxBytesMeter.count = observed[h1].rxBytes
        /\ Link(h1).linkRxMsgMeter.count = observed[h1].rxMsgs
        /\ Link(h1).linkRxMsgSizeHistogram.samples = observed[h1].rxSizes
        /\ Link(h1).linkTxBytesMeter.count = observed[h1].txBytes
        /\ Link(h1).linkTxMsgMeter.count = observed[h1].txMsgs
        /\ Link(h1).linkTxMsgSizeHistogram.samples = observed[h1].txSizes
        /\ \A f \in LinkFields : Link(h1)[f].disposed = observed[h1].closes

\* of two handlers of one linkId, one observed a message and the other was closed
C9_Witness ==
    \E h1, h2 \in Handlers :
      /\ h1 # h2
      /\ Link(h1).linkId = Link(h2).linkId
      /\ observed[h1].rxMsgs = 1 /\ observed[h1].closes = 0
      /\ observed[h2].rxMsgs = 0 /\ observed[h2].closes = 1
      /\ Link(h1).linkRxMsgMeter.count = 1 /\ Link(h1).linkRxMsgMeter.disposed = 0
      /\ Link(h2).linkRxMsgMeter.count = 0 /\ Link(h2).linkRxMsgMeter.disposed = 1

(* C10: Tx is symmetric to Rx.  A Tx on a handler updates its three tx     *)
(* link-scoped handles and the three tx application-wide handles, and      *)
(* leaves every rx handle and the inbound usage counter unchanged; an Rx   *)
(* leaves every tx handle and the outbound usage counter unchanged.        *)
C10_DirectionStep ==
    \A h \in Handlers :
      /\ observed'[h].txMsgs = observed[h].txMsgs + 1 =>
           LET size == observed'[h].txBytes - observed[h].txBytes IN
           /\ linkHandles'[handlers[h].link].linkTxBytesMeter.count =
                Link(h).linkTxBytesMeter.count + size
           /\ linkHandles'[handlers[h].link].linkTxMsgMeter.count =
                Link(h).linkTxMsgMeter.count + 1
           /\ linkHandles'[handlers[h].link].linkTxMsgSizeHistogram.samples =
                Link(h).linkTxMsgSizeHistogram.samples (+) SetToBag({size})
           /\ appHandles'.appTxBytesMeter.count = appHandles.appTxBytesMeter.count + size
           /\ appHandles'.appTxMsgMeter.count = appHandles.appTxMsgMeter.count + 1
           /\ appHandles'.appTxMsgSizeHistogram.samples =
                appHandles.appTxMsgSizeHistogram.samples (+) SetToBag({size})
           /\ \A i \in 1..Len(linkHandles) : \A f \in LinkRxFields :
                linkHandles'[i][f] = linkHandles[i][f]
           /\ \A i \in 1..Len(linkHandles) :
                i # handlers[h].link => linkHandles'[i] = linkHandles[i]
           /\ \A f \in AppRxFields : appHandles'[f] = appHandles[f]
           /\ usage'.usageRxCounter = usage.usageRxCounter
      /\ observed'[h].rxMsgs = observed[h].rxMsgs + 1 =>
           LET size == observed'[h].rxBytes - observed[h].rxBytes IN
           /\ linkHandles'[handlers[h].link].linkRxBytesMeter.count =
                Link(h).linkRxBytesMeter.count + size
           /\ linkHandles'[handlers[h].link].linkRxMsgMeter.count =
                Link(h).linkRxMsgMeter.count + 1
           /\ linkHandles'[handlers[h].link].linkRxMsgSizeHistogram.samples =
                Link(h).linkRxMsgSizeHistogram.samples (+) SetToBag({size})
           /\ appHandles'.appRxBytesMeter.count = appHandles.appRxBytesMeter.count + size
           /\ appHandles'.appRxMsgMeter.count = appHandles.appRxMsgMeter.count + 1
           /\ appHandles'.appRxMsgSizeHistogram.samples =
                appHandles.appRxMsgSizeHistogram.samples (+) SetToBag({size})
           /\ \A i \in 1..Len(linkHandles) : \A f \in LinkTxFields :
                linkHandles'[i][f] = linkHandles[i][f]
           /\ \A i \in 1..Len(linkHandles) :
                i # handlers[h].link => linkHandles'[i] = linkHandles[i]
           /\ \A f \in AppTxFields : appHandles'[f] = appHandles[f]
           /\ usage'.usageTxCounter = usage.usageTxCounter

C10_DirectionSeparation == [][C10_DirectionStep]_vars

\* a handler that received nothing sent one decodable payload message
C10_Witness ==
    \E h \in Handlers :
      /\ observed[h].txMsgs = 1 /\ observed[h].txBytes = 1 /\ observed[h].rxMsgs = 0
      /\ ncalls = 1
      /\ BagCardinality(usage.usageTxCounter.updates) = 1
      /\ usage.usageRxCounter.updates = EmptyBag
      /\ Link(h).linkTxBytesMeter.count = 1
      /\ Link(h).linkRxMsgMeter.count = 0
      /\ appHandles.appTxMsgMeter.count = 1
      /\ appHandles.appRxMsgMeter.count = 0

---------------------------------------------------------------------------
(* C11: an Rx or Tx of a message whose content type is not the payload     *)
(* type makes the six meter/histogram updates of its direction by the      *)
(* length of the body, attempts no decode (nothing is logged) and leaves   *)
(* both usage counters unchanged, whether or not its body would decode.    *)
C11_OtherContentTypeStep ==
    \A h \in Handlers, msg \in Messages :
      msg.ContentType # ContentTypePayloadType =>
        /\ Rx(h, msg) =>
             /\ usage' = usage
             /\ log' = log
             /\ linkHandles'[handlers[h].link] =
                  [Link(h) EXCEPT
                     !.linkRxBytesMeter       = Mark(@, msg.BodyLen),
                     !.linkRxMsgMeter         = Mark(@, 1),
                     !.linkRxMsgSizeHistogram = HistogramUpdate(@, msg.BodyLen)]
             /\ appHandles' =
                  [appHandles EXCEPT
                     !.appRxBytesMeter       = Mark(@, msg.BodyLen),
                     !.appRxMsgMeter         = Mark(@, 1),
                     !.appRxMsgSizeHistogram = HistogramUpdate(@, msg.BodyLen)]
        /\ Tx(h, msg) =>
             /\ usage' = usage
             /\ log' = log
             /\ linkHandles'[handlers[h].link] =
                  [Link(h) EXCEPT
                     !.linkTxBytesMeter       = Mark(@, msg.BodyLen),
                     !.linkTxMsgMeter         = Mark(@, 1),
                     !.linkTxMsgSizeHistogram = HistogramUpdate(@, msg.BodyLen)]
             /\ appHandles' =
                  [appHandles EXCEPT
                     !.appTxBytesMeter       = Mark(@, msg.BodyLen),
                     !.appTxMsgMeter         = Mark(@, 1),
                     !.appTxMsgSizeHistogram = HistogramUpdate(@, msg.BodyLen)]

C11_OtherContentType == [][C11_OtherContentTypeStep]_vars

\* the one message received so far had another content type: it was counted,
\* nothing was logged and no usage was accounted
C11_Witness ==
    /\ ncalls = 1
    /\ appHandles.appRxMsgMeter.count = 1
    /\ appHandles.appRxBytesMeter.count = 1
    /\ log = 0
    /\ usage = NewUsageCounters

(* C16: with several channel peek handlers sharing the application-wide    *)
(* handles, the application-wide rx (tx) byte total is the sum of the      *)
(* bytes the handlers observed via Rx (Tx) and the message count the       *)
(* number of such calls, closed handlers included; a handler's link-scoped *)
(* handles carry only its own messages and are disposed only by its own    *)
(* Close.                                                                  *)
C16_SharedTotals ==
    /\ appHandles.appRxBytesMeter.count =
         SumOver([h \in Handlers |-> observed[h].rxBytes], Len(handlers))
    /\ appHandles.appRxMsgMeter.count =
         SumOver([h \in Handlers |-> observed[h].rxMsgs], Len(handlers))
    /\ appHandles.appTxBytesMeter.count =
         SumOver([h \in Handlers |-> observed[h].txBytes], Len(handlers))
    /\ appHandles.appTxMsgMeter.count =
         SumOver([h \in Handlers |-> observed[h].txMsgs], Len(handlers))
    /\ \A h \in Handlers :
         (\A g \in Handlers : g # h => Link(g).linkId # Link(h).linkId) =>
           /\ \A f \in LinkFields : Link(h)[f].disposed = observed[h].closes
           /\ Link(h).linkRxBytesMeter.count = observed[h].rxBytes
           /\ Link(h).linkRxMsgMeter.count = observed[h].rxMsgs
           /\ Link(h).linkTxBytesMeter.count = observed[h].txBytes
           /\ Link(h).linkTxMsgMeter.count = observed[h].txMsgs

\* two handlers of different links each sent one byte
C16_Witness ==
    \E h1, h2 \in Handlers :
      /\ Link(h1).linkId # Link(h2).linkId
      /\ observed[h1].txBytes = 1
      /\ observed[h2].txBytes = 1
      /\ appHandles.appTxBytesMeter.count = 2
      /\ appHandles.appTxMsgMeter.count = 2

---------------------------------------------------------------------------
RECURSIVE UsageTotal(_)
\* the amounts of the updates of the bag b of (key, amount) pairs, summed
UsageTotal(b) ==
    IF BagToSet(b) = {} THEN 0
    ELSE LET u == CHOOSE u \in BagToSet(b) : TRUE
         IN CopiesIn(u, b) * u[2] + UsageTotal([v \in BagToSet(b) \ {u} |-> b[v]])

---------------------------------------------------------------------------
(* Helpers for the properties of overlapping calls *)

\* what a handle has accumulated: a meter's sum, a histogram's samples, an
\* interval counter's updates
Value(x) ==
    IF "count" \in DOMAIN x THEN x.count
    ELSE IF "samples" \in DOMAIN x THEN x.samples ELSE x.updates

RECURSIVE FnSum(_)
\* the sum of f[x] over the domain of f
FnSum(f) ==
    IF DOMAIN f = {} THEN 0
    ELSE LET x == CHOOSE y \in DOMAIN f : TRUE
         IN f[x] + FnSum([y \in DOMAIN f \ {x} |-> f[y]])

\* the calls of kind op in progress that have executed fewer than k statements
InProgress(op, k) == {c \in BagToSet(running) : c.op = op /\ c.pc < k}

---------------------------------------------------------------------------
(* C12: Connect of the channel peek handler and Close of the xgress peek   *)
(* handler change no meter, histogram or usage counter and dispose no      *)
(* handle, in whatever state and however often they are called, also       *)
(* while other calls are in progress; no handle of the xgress peek handler *)
(* is ever disposed.                                                       *)
C12_HookStep ==
    shadow'.hooks # shadow.hooks =>
        UNCHANGED <<linkHandles, appHandles, usage, log, xgressHandles>>

C12_NoOpHooks ==
    /\ [](\A f \in DOMAIN xgressHandles : xgressHandles[f].disposed = 0)
    /\ [][C12_HookStep]_vars

\* both hooks were called, twice in all, and every handle is as registered
C12_Witness ==
    /\ CopiesIn("Connect", shadow.hooks) = 1
    /\ CopiesIn("Close", shadow.hooks) = 1
    /\ linkHandles = <<NewLinkHandles("L1")>>
    /\ appHandles = NewAppHandles
    /\ usage = NewUsageCounters
    /\ xgressHandles = NewXgressHandles

---------------------------------------------------------------------------
(* C13: the channel peek handler has no synchronization: a call in         *)
(* progress can always execute its next statement whatever other calls are *)
(* in progress, and a goroutine can enter Rx, Tx or Close while other      *)
(* calls are in progress.  So Close overlaps Rx/Tx, and a link-scoped      *)
(* handle can be updated after Close disposed it by an Rx/Tx that was      *)
(* entered before Close was.                                               *)
C13_NoExclusion ==
    /\ \A c \in BagToSet(running) : ENABLED Step(c)
    /\ (ncalls < MaxCalls /\ BagCardinality(running) < Cardinality(Goroutines))
         => \A c \in ChannelCalls : ENABLED Enter(c)

\* Close and an Rx/Tx are both in progress; a link-scoped handle has been
\* updated after its disposal, which no order of whole calls produces here
C13_Witness ==
    /\ \E c, d \in BagToSet(running) : c.op = "Close" /\ d.op \in {"Rx", "Tx"}
    /\ \E f \in LinkFields :
         /\ linkHandles[1][f].disposed = 1
         /\ linkHandles[1][f].stale > 0
         /\ shadow.link[1][f].stale = 0

---------------------------------------------------------------------------
(* C14: once every call has returned, each meter total, message count,     *)
(* histogram sample bag and usage update bag of both handlers (and the     *)
(* number of error lines) equals what the same calls produce when they run *)
(* one after the other; no update is lost to the interleaving.             *)
C14_InterleavingIndependence ==
    running = EmptyBag =>
        /\ \A f \in LinkFields : Value(linkHandles[1][f]) = Value(shadow.link[1][f])
        /\ \A f \in AppFields : Value(appHandles[f]) = Value(shadow.app[f])
        /\ \A f \in UsageFields : Value(usage[f]) = Value(shadow.usage[f])
        /\ \A f \in DOMAIN xgressHandles : Value(xgressHandles[f]) = Value(shadow.xgress[f])
        /\ log = shadow.log

\* two Rx of a payload overlapped on the one handler and both have returned
C14_Witness ==
    /\ running = EmptyBag
    /\ shadow.overlap
    /\ linkHandles[1].linkRxMsgMeter.count = 2
    /\ appHandles.appRxMsgMeter.count = 2
    /\ BagCardinality(usage.usageRxCounter.updates) = 2

---------------------------------------------------------------------------
(* C15: every call returns.  A call in progress has executed fewer         *)
(* statements than its method has, and whenever calls are in progress a    *)
(* state follows in which all of them have returned, whatever the input:   *)
(* a payload that fails to decode, a call entered after Close.             *)
C15_Terminates ==
    /\ [](\A c \in BagToSet(running) : c.pc < Statements(c.op))
    /\ (running # EmptyBag) ~> (running = EmptyBag)

\* an Rx/Tx of an undecodable payload, entered after Close, has returned
C15_Witness ==
    /\ running = EmptyBag
    /\ log = 1
    /\ \A f \in LinkFields : linkHandles[1][f].disposed = 1
    /\ \E f \in LinkFields : shadow.link[1][f].stale = 1

---------------------------------------------------------------------------
(* C18: inside Rx (and Tx) of the channel peek handler the order is: link  *)
(* byte meter, link message meter, link histogram, shared byte meter,      *)
(* shared message meter, shared histogram, then the decode and the usage   *)
(* update.  In every state each of these handles holds the updates of the  *)
(* calls that returned and of the calls in progress that are past its      *)
(* place in that order, and nothing else; so a message that the usage      *)
(* counter reflects is reflected by all six meters and histograms.         *)
C18_PendingMsgs(op, k) == FnSum([c \in InProgress(op, k) |-> running[c]])

C18_PendingBytes(op, k) == FnSum([c \in InProgress(op, k) |-> running[c] * c.msg.BodyLen])

C18_PendingUsage(op) ==
    FnSum([c \in {d \in InProgress(op, Statements(op)) :
                    d.msg.ContentType = ContentTypePayloadType /\ d.msg.decodes}
             |-> running[c]])

C18_UpdateOrder ==
    \A op \in {"Rx", "Tx"} :
        LET bytes == op \o "BytesMeter"
            msgs  == op \o "MsgMeter"
            sizes == op \o "MsgSizeHistogram"
            L == linkHandles[1]
            S == shadow.link[1]
            u == "usage" \o op \o "Counter"
        IN /\ L["link" \o bytes].count + C18_PendingBytes(op, 1) = S["link" \o bytes].count
           /\ L["link" \o msgs].count + C18_PendingMsgs(op, 2) = S["link" \o msgs].count
           /\ BagCardinality(L["link" \o sizes].samples) + C18_PendingMsgs(op, 3)
                = BagCardinality(S["link" \o sizes].samples)
           /\ appHandles["app" \o bytes].count + C18_PendingBytes(op, 4)
                = shadow.app["app" \o bytes].count
           /\ appHandles["app" \o msgs].count + C18_PendingMsgs(op, 5)
                = shadow.app["app" \o msgs].count
           /\ BagCardinality(appHandles["app" \o sizes].samples) + C18_PendingMsgs(op, 6)
                = BagCardinality(shadow.app["app" \o sizes].samples)
           /\ BagCardinality(usage[u].updates) + C18_PendingUsage(op)
                = BagCardinality(shadow.usage[u].updates)

\* an Rx of a decodable payload has made its six meter and histogram updates
\* and not yet the usage update
C18_Witness ==
    /\ \E c \in BagToSet(running) : c.op = "Rx" /\ c.pc = 6 /\ c.msg.decodes
    /\ linkHandles[1].linkRxBytesMeter.count = 1
    /\ BagCardinality(appHandles.appRxMsgSizeHistogram.samples) = 1
    /\ usage.usageRxCounter.updates = EmptyBag

====
